---------------------------- MODULE Spec2Model ----------------------------
(***************************************************************************)
(* BioIntertidal Mapper v2.0 (BioIntertidalMapper_script_v2.0.py).         *)
(*                                                                         *)
(* Four specifications over one set of variables:                          *)
(*   Spec        the Tkinter application: the UI thread (button handlers   *)
(*               and the after(0) callback queue) and the worker threads   *)
(*               it starts (dependency install, authentication, run);      *)
(*   SpecReauth  the same application with the packages installed, one     *)
(*               more click and one scene at most;                         *)
(*   SpecLive    the same with the packages installed and fairness of the  *)
(*               UI thread's and the processing workers' steps;            *)
(*   SpecV       the form parser and _validate_params applied to bounded   *)
(*               sets of raw form texts.                                   *)
(*                                                                         *)
(* What the model takes from the environment: the packages are importable  *)
(* or not; pip succeeds or fails; each Earth Engine call (Authenticate,    *)
(* Initialize, size().getInfo(), the metadata getInfo(), task.start())     *)
(* returns or raises; the code dialog is answered or cancelled; the scene  *)
(* count and the scenes' acquisition dates.  A message box is recorded     *)
(* when it is shown and does not hold up the callbacks behind it.  A       *)
(* click is one of Log in, Execute and Clear console.  A worker hands its  *)
(* widget calls to the UI thread one at a time, at most MaxPending         *)
(* callbacks waiting.                                                      *)
(*                                                                         *)
(* Text is modelled as a sequence of one-character strings, so that        *)
(* strip / upper / int() / float() / date.fromisoformat / re.fullmatch     *)
(* are computed character by character as the code does.                   *)
(***************************************************************************)
EXTENDS Integers, Sequences, FiniteSets, TLC

VARIABLES
    ui,         \* widget state, owned by the Tk main loop
    uiQueue,    \* callbacks registered with root.after(0, ...), oldest first
    threads,    \* worker threads ever started, in start order
    ee,         \* self._ee is not None
    installing, \* self._dependency_install_in_progress
    depsPresent,\* environment: "ee" and "certifi" are importable
    clicks,     \* number of user clicks handled so far
    vform,      \* SpecV: raw form texts
    vphase,     \* SpecV: "raw" | "read" | "unparsed" | "validated"
    vparams,    \* SpecV: MapperParams built by _read_params_from_ui
    vresult     \* SpecV: (valid, msg) of _validate_params

guiVars == <<ui, uiQueue, threads, ee, installing, depsPresent, clicks>>
valVars == <<vform, vphase, vparams, vresult>>
vars == <<ui, uiQueue, threads, ee, installing, depsPresent, clicks,
          vform, vphase, vparams, vresult>>

---------------------------------------------------------------------------
(* Text helpers *)

DigitChars == <<"0", "1", "2", "3", "4", "5", "6", "7", "8", "9">>
LowerChars == <<"a", "b", "c", "d", "e", "f", "g", "h", "i", "j", "k", "l", "m",
                "n", "o", "p", "q", "r", "s", "t", "u", "v", "w", "x", "y", "z">>
UpperChars == <<"A", "B", "C", "D", "E", "F", "G", "H", "I", "J", "K", "L", "M",
                "N", "O", "P", "Q", "R", "S", "T", "U", "V", "W", "X", "Y", "Z">>
Range(s) == {s[k] : k \in DOMAIN s}
IsDigit(c) == c \in Range(DigitChars)
IsUpperAZ(c) == c \in Range(UpperChars)
\* str.strip() with no argument removes these
IsSpace(c) == c \in {" ", "\t", "\n"}
DigitVal(c) == (CHOOSE k \in DOMAIN DigitChars : DigitChars[k] = c) - 1

RECURSIVE LStrip(_)
LStrip(s) == IF s # <<>> /\ IsSpace(Head(s)) THEN LStrip(Tail(s)) ELSE s
RECURSIVE RStrip(_)
RStrip(s) ==
    IF s # <<>> /\ IsSpace(s[Len(s)]) THEN RStrip(SubSeq(s, 1, Len(s) - 1)) ELSE s
\* str.strip()
Strip(s) == RStrip(LStrip(s))

\* str.replace(old, ""), old a single character
RemoveChar(s, old) == SelectSeq(s, LAMBDA c : c # old)

UpperChar(c) ==
    IF c \in Range(LowerChars)
    THEN UpperChars[CHOOSE k \in DOMAIN LowerChars : LowerChars[k] = c]
    ELSE c
\* str.upper()
Upper(s) == [k \in DOMAIN s |-> UpperChar(s[k])]

RECURSIVE DigitsValue(_)
DigitsValue(s) ==
    IF s = <<>> THEN 0
    ELSE 10 * DigitsValue(SubSeq(s, 1, Len(s) - 1)) + DigitVal(s[Len(s)])
AllDigits(s) == \A k \in DOMAIN s : IsDigit(s[k])

RECURSIVE Pow10(_)
Pow10(n) == IF n = 0 THEN 1 ELSE 10 * Pow10(n - 1)

---------------------------------------------------------------------------
(* Form parsing: _parse_tile, _parse_int, _parse_float *)

\* the tile left in the case it was typed in
ParseTileKeepCase(value) == RemoveChar(Strip(value), " ")

\* value.strip().replace(" ", "").upper()
ParseTile(value) == Upper(RemoveChar(Strip(value), " "))

\* int(value): surrounding whitespace, one optional sign, decimal digits.
SignedDigits(sign, body) ==
    IF body # <<>> /\ AllDigits(body)
    THEN [ok |-> TRUE,
          val |-> IF sign = "-" THEN 0 - DigitsValue(body) ELSE DigitsValue(body)]
    ELSE [ok |-> FALSE, val |-> 0]
IntOfStripped(t) ==
    IF t # <<>> /\ Head(t) \in {"+", "-"}
    THEN SignedDigits(Head(t), Tail(t))
    ELSE SignedDigits("+", t)
IntLiteral(value) == IntOfStripped(Strip(value))

\* the value, or ValueError(f"{field_name} must be an integer.")
IntOrError(r, field_name) ==
    IF r.ok THEN [ok |-> TRUE, val |-> r.val, err |-> <<>>]
    ELSE [ok |-> FALSE, val |-> 0, err |-> <<field_name, "must be an integer.">>]
ParseInt(value, field_name) == IntOrError(IntLiteral(value), field_name)

\* float(value) on a plain decimal literal: surrounding whitespace, one optional
\* sign, digits with at most one ".", at least one digit.  The value is kept
\* exact as num / den with den a power of ten; ordering of such values is the
\* ordering of the doubles they round to.
SignedDecimal(sign, ip, fp) ==
    IF AllDigits(ip) /\ AllDigits(fp) /\ Len(ip) + Len(fp) >= 1
    THEN [ok |-> TRUE,
          val |-> [num |-> (IF sign = "-" THEN 0 - 1 ELSE 1)
                              * (DigitsValue(ip) * Pow10(Len(fp)) + DigitsValue(fp)),
                   den |-> Pow10(Len(fp))]]
    ELSE [ok |-> FALSE, val |-> [num |-> 0, den |-> 1]]
\* the position of the first ".", or one past the end
DotIndex(body) ==
    IF \E k \in DOMAIN body : body[k] = "."
    THEN CHOOSE k \in DOMAIN body :
            body[k] = "." /\ \A j \in 1..(k - 1) : body[j] # "."
    ELSE Len(body) + 1
SplitDecimal(sign, body, dot) ==
    SignedDecimal(sign, SubSeq(body, 1, dot - 1), SubSeq(body, dot + 1, Len(body)))
FloatOfStripped(t) ==
    IF t # <<>> /\ Head(t) \in {"+", "-"}
    THEN SplitDecimal(Head(t), Tail(t), DotIndex(Tail(t)))
    ELSE SplitDecimal("+", t, DotIndex(t))
FloatLiteral(value) == FloatOfStripped(Strip(value))

\* the value, or ValueError(f"{field_name} must be a number.")
FloatOrError(r, field_name) ==
    IF r.ok THEN [ok |-> TRUE, val |-> r.val, err |-> <<>>]
    ELSE [ok |-> FALSE, val |-> r.val, err |-> <<field_name, "must be a number.">>]
ParseFloat(value, field_name) == FloatOrError(FloatLiteral(value), field_name)

\* a <= b on exact decimals
FLe(a, b) == a.num * b.den <= b.num * a.den
FInt(n) == [num |-> n, den |-> 1]


---------------------------------------------------------------------------
(* Dates: date.fromisoformat on "YYYY-MM-DD" and date comparison *)

IsLeap(y) == (y % 4 = 0 /\ y % 100 # 0) \/ y % 400 = 0
DaysInMonth(y, m) ==
    IF m = 2 THEN (IF IsLeap(y) THEN 29 ELSE 28)
    ELSE IF m \in {4, 6, 9, 11} THEN 30 ELSE 31

\* [ok, ord]: ord orders dates as (year, month, day) tuples are ordered
DateOf(y, m, d) ==
    IF y >= 1 /\ m \in 1..12 /\ d >= 1 /\ d <= DaysInMonth(y, m)
    THEN [ok |-> TRUE, ord |-> y * 10000 + m * 100 + d]
    ELSE [ok |-> FALSE, ord |-> 0]
IsoShaped(s) ==
    /\ Len(s) = 10
    /\ s[5] = "-" /\ s[8] = "-"
    /\ \A k \in {1, 2, 3, 4, 6, 7, 9, 10} : IsDigit(s[k])
FromIsoFormat(s) ==
    IF IsoShaped(s)
    THEN DateOf(DigitsValue(SubSeq(s, 1, 4)), DigitsValue(SubSeq(s, 6, 7)),
                DigitsValue(SubSeq(s, 9, 10)))
    ELSE [ok |-> FALSE, ord |-> 0]

\* date(2017, 3, 1)
EpochOrd == 2017 * 10000 + 3 * 100 + 1

\* re.compile(r"^T\d{2}[A-Z]{3}$").fullmatch(tile)
TilePatternMatch(tile) ==
    /\ Len(tile) = 6
    /\ tile[1] = "T"
    /\ IsDigit(tile[2]) /\ IsDigit(tile[3])
    /\ IsUpperAZ(tile[4]) /\ IsUpperAZ(tile[5]) /\ IsUpperAZ(tile[6])

---------------------------------------------------------------------------
(* _validate_params *)

MsgTileEmpty == "Sentinel-2 tile must not be empty. Example: T29UPV"
MsgGeometryEmpty == "Geometry asset id must not be empty."
MsgFolderEmpty == "Google Drive folder name must not be empty."
MsgOneTile == "Only one Sentinel-2 tile is supported. Example: T29UPV"
MsgTilePattern == "Sentinel-2 tile must match the pattern (e.g., T29UPV)."
MsgDateFormat == "Date range must be in the format YYYY-MM-DD."
MsgStartEpoch == "Start date must be after March 2017."
MsgEndBeforeStart == "End date must be on or after start date."
MsgCloud == "Cloud percentage must be between 0 and 100."
MsgWater == "Max water percentage must be between 0 and 100."
MsgNdviRange == "NDVI range must be between -1 and 1."
MsgNdviOrder == "NDVI end value must be greater than the start value."
MsgEpsg == "EPSG must be a positive integer (e.g., 32629)."

Reject(msg) == [valid |-> FALSE, msg |-> msg]
Accept == [valid |-> TRUE, msg |-> ""]

\* a percentage checked against its lower bound only
PercentageNotNegative(value) == 0 <= value

\* 0 <= value <= 100
PercentageInRange(value) == 0 <= value /\ value <= 100

\* only an end value below the start value turned down
NdviEndBelowStart(start_ndvi, end_ndvi) ==
    FLe(end_ndvi, start_ndvi) /\ ~FLe(start_ndvi, end_ndvi)

\* params.end_ndvi <= params.start_ndvi
NdviEndNotAboveStart(start_ndvi, end_ndvi) == FLe(end_ndvi, start_ndvi)

\* -1 <= value <= 1
NdviInRange(value) == FLe(FInt(-1), value) /\ FLe(value, FInt(1))

\* the first day allowed turned down as well
StartNotAfterEpoch(start_dt) == start_dt <= EpochOrd

\* start_dt < date(2017, 3, 1)
StartBeforeEpoch(start_dt) == start_dt < EpochOrd

\* the water percentage checked before the cloud percentage
ValidateAfterDatesWaterFirst(p, start_dt, end_dt) ==
    IF StartBeforeEpoch(start_dt) THEN Reject(MsgStartEpoch)
    ELSE IF end_dt < start_dt THEN Reject(MsgEndBeforeStart)
    ELSE IF ~PercentageInRange(p.max_water_percentage) THEN Reject(MsgWater)
    ELSE IF ~PercentageInRange(p.cloudy_percentage) THEN Reject(MsgCloud)
    ELSE IF ~(NdviInRange(p.start_ndvi) /\ NdviInRange(p.end_ndvi))
    THEN Reject(MsgNdviRange)
    ELSE IF NdviEndNotAboveStart(p.start_ndvi, p.end_ndvi)
    THEN Reject(MsgNdviOrder)
    ELSE IF p.epsg <= 0 THEN Reject(MsgEpsg)
    ELSE Accept

\* the checks of _validate_params made once both dates are parsed
ValidateAfterDates(p, start_dt, end_dt) ==
    IF StartBeforeEpoch(start_dt) THEN Reject(MsgStartEpoch)
    ELSE IF end_dt < start_dt THEN Reject(MsgEndBeforeStart)
    ELSE IF ~PercentageInRange(p.cloudy_percentage) THEN Reject(MsgCloud)
    ELSE IF ~PercentageInRange(p.max_water_percentage) THEN Reject(MsgWater)
    ELSE IF ~(NdviInRange(p.start_ndvi) /\ NdviInRange(p.end_ndvi))
    THEN Reject(MsgNdviRange)
    ELSE IF NdviEndNotAboveStart(p.start_ndvi, p.end_ndvi)
    THEN Reject(MsgNdviOrder)
    ELSE IF p.epsg <= 0 THEN Reject(MsgEpsg)
    ELSE Accept

\* the try block around the two date.fromisoformat calls, and what follows it
ValidateDates(p, start, end) ==
    IF ~(start.ok /\ end.ok) THEN Reject(MsgDateFormat)
    ELSE ValidateAfterDates(p, start.ord, end.ord)

ValidateParams(p) ==
    IF p.tile = <<>> THEN Reject(MsgTileEmpty)
    ELSE IF Strip(p.geometry_asset_id) = <<>> THEN Reject(MsgGeometryEmpty)
    ELSE IF Strip(p.drive_folder) = <<>> THEN Reject(MsgFolderEmpty)
    ELSE IF ";" \in Range(p.tile) THEN Reject(MsgOneTile)
    ELSE IF ~TilePatternMatch(p.tile) THEN Reject(MsgTilePattern)
    ELSE ValidateDates(p, FromIsoFormat(p.start_date), FromIsoFormat(p.end_date))

---------------------------------------------------------------------------
(* _read_params_from_ui: the numeric fields are parsed in the order cloud,  *)
(* water, NDVI start, NDVI end, EPSG; the first failure raises ValueError.  *)

NoParams == [start_date |-> <<>>, end_date |-> <<>>, cloudy_percentage |-> 0,
             max_water_percentage |-> 0, tile |-> <<>>,
             start_ndvi |-> FInt(0), end_ndvi |-> FInt(0),
             geometry_asset_id |-> <<>>, epsg |-> 0, drive_folder |-> <<>>]

\* MapperParams(...) from the parsed fields, or the first ValueError
MapperParamsOf(f, cloudy, water, s_ndvi, e_ndvi, epsg) ==
    LET parsed == <<cloudy, water, s_ndvi, e_ndvi, epsg>>
        bad == {k \in 1..5 : ~parsed[k].ok}
    IN  IF bad # {}
        THEN [ok |-> FALSE,
              err |-> parsed[CHOOSE k \in bad : \A j \in bad : k <= j].err,
              params |-> NoParams]
        ELSE [ok |-> TRUE, err |-> <<>>,
              params |-> [start_date |-> Strip(f.start_date),
                          end_date |-> Strip(f.end_date),
                          cloudy_percentage |-> cloudy.val,
                          max_water_percentage |-> water.val,
                          tile |-> ParseTile(f.tile),
                          start_ndvi |-> s_ndvi.val,
                          end_ndvi |-> e_ndvi.val,
                          geometry_asset_id |-> Strip(f.geometry),
                          epsg |-> epsg.val,
                          drive_folder |-> Strip(f.folder_name)]]

ReadParamsFromUi(f) ==
    MapperParamsOf(f,
                   ParseInt(f.cloudy_percentage, "Cloud percentage"),
                   ParseInt(f.max_water_percentage, "Max water percentage"),
                   ParseFloat(f.start_ndvi, "NDVI start"),
                   ParseFloat(f.end_ndvi, "NDVI end"),
                   ParseInt(Strip(f.epsg), "EPSG"))

---------------------------------------------------------------------------
(* Bounds of the model *)

\* Spec: user clicks (Log in / Execute / Clear console) handled in one
\* behaviour
MaxClicks == 3
\* Spec: largest img_count the remote service reports
MaxScenes == 2
\* SpecReauth: clicks handled, and largest img_count
ReauthClicks == 4
ReauthScenes == 1
\* callbacks that may be waiting in the Tk queue when a worker adds one
MaxPending == 1
\* SpecLive: clicks handled, and largest img_count
LiveClicks == 3
LiveScenes == 1

---------------------------------------------------------------------------
(* Widgets and the callbacks that change them *)

MainThread == 0

LOGIN_BUTTON_TEXT_DEFAULT == "Log in to Google Earth Engine"
LOGIN_BUTTON_TEXT_WORKING == "Logging in..."
LOGIN_BUTTON_TEXT_INSTALLING_DEPS == "Installing dependencies..."
\* the source text carries a tick sign after "Logged in", left out here
LOGIN_BUTTON_TEXT_AUTHENTICATED == "Logged in (Re-authenticate)"

StatusNotLoggedIn == "Status: Not logged in"
StatusAuthenticating == "Status: Authenticating..."
StatusLoggedIn == "Status: Logged in"

\* no message box shown yet
NoDialog == [kind |-> "none", title |-> ""]

\* the widgets as _create_widgets leaves them; console is the set of messages
\* in the console text, dialog the message box shown last
InitialUi ==
    [run_button |-> "disabled", login_button |-> "normal",
     login_text |-> LOGIN_BUTTON_TEXT_DEFAULT, auth_status |-> StatusNotLoggedIn,
     entries |-> "disabled", progress |-> 0,
     console |-> {}, tide_dates |-> <<>>, dialog |-> NoDialog]

\* _set_progress_ui: max(0.0, min(100.0, value))
Clamp(v) == IF v < 0 THEN 0 ELSE IF v > 100 THEN 100 ELSE v

\* One widget call.  op names the call, val its argument, src the thread on
\* whose behalf it is made.
ApplyItem(u, it) ==
    CASE it.op = "progress" -> [u EXCEPT !.progress = Clamp(it.value)]
      [] it.op = "run_state" -> [u EXCEPT !.run_button = it.text]
      [] it.op = "login_state" -> [u EXCEPT !.login_button = it.text]
      [] it.op = "login_text" -> [u EXCEPT !.login_text = it.text]
      [] it.op = "auth_status" -> [u EXCEPT !.auth_status = it.text]
      [] it.op = "dialog" ->
            [u EXCEPT !.dialog = [kind |-> it.box[1], title |-> it.box[2]]]
      [] it.op = "console" -> [u EXCEPT !.console = @ \cup {it.text}]
      [] it.op = "tide" -> [u EXCEPT !.tide_dates = it.dates]
      [] it.op = "clear" ->
            [u EXCEPT !.console = {}, !.tide_dates = <<>>, !.progress = 0]
      [] it.op = "enable_fields" ->
            [u EXCEPT !.entries = "normal", !.run_button = "normal"]
      [] OTHER -> u

\* root.after(0, f): f joins the callbacks Tk runs, after those already there
CallInUi(q, it) == Append(q, it)

\* an effect of a handler or worker step: a widget call made at once by the
\* calling thread (direct) or handed to the UI thread with _call_in_ui
\* The argument val of the call is kept by its kind: value for a progress
\* number, box for the (kind, title) of a message box, dates for a date list,
\* text for everything else.
WidgetCall(t, op, val, direct) ==
    [op |-> op, src |-> t, direct |-> direct,
     text |-> IF op \notin {"progress", "dialog", "tide"} THEN val ELSE "",
     value |-> IF op = "progress" THEN val ELSE 0,
     box |-> IF op = "dialog" THEN val ELSE <<"", "">>,
     dates |-> IF op = "tide" THEN val ELSE <<>>]
Direct(t, op, val) == WidgetCall(t, op, val, TRUE)
Posted(t, op, val) == WidgetCall(t, op, val, FALSE)

EnabledState(enabled) == IF enabled THEN "normal" ELSE "disabled"

SetProgress(t, value) == Posted(t, "progress", value)
\* _set_run_enabled without the test of the current thread
SetRunEnabledAnyThread(t, enabled) == Direct(t, "run_state", EnabledState(enabled))
SetRunEnabled(t, enabled) ==
    IF t = MainThread THEN Direct(t, "run_state", EnabledState(enabled))
    ELSE Posted(t, "run_state", EnabledState(enabled))
SetLoginEnabled(t, enabled) ==
    IF t = MainThread THEN Direct(t, "login_state", EnabledState(enabled))
    ELSE Posted(t, "login_state", EnabledState(enabled))
ShowError(t, title) == Posted(t, "dialog", <<"error", title>>)
ShowInfo(t, title) == Posted(t, "dialog", <<"info", title>>)
\* print(...) with sys.stdout redirected: TextRedirector.write
PrintOut(t, tag) == Posted(t, "console", tag)
ClearOutputs(t) ==
    IF t = MainThread THEN Direct(t, "clear", "") ELSE Posted(t, "clear", "")

\* the effects of a handler running on the UI thread, in program order
RECURSIVE RunEffects(_, _, _)
RunEffects(u, q, effs) ==
    IF effs = <<>> THEN [ui |-> u, q |-> q]
    ELSE IF Head(effs).direct
         THEN RunEffects(ApplyItem(u, Head(effs)), q, Tail(effs))
         ELSE RunEffects(u, CallInUi(q, Head(effs)), Tail(effs))

---------------------------------------------------------------------------
(* Worker threads *)

\* A worker thread.  pc is the statement it is at: "done" once its last step
\* is computed and its last effects are still to take place, "returned" once
\* its target has returned, "gone" once its last callback has run too.
\* outbox: the effects of the current step still to take place, in program
\* order; sent: the effects that took place; exports: the export tasks it
\* started on the remote service; calls: its calls out, with their outcome;
\* result: how its target ended ("running" until then).
NewThread(kind, pc, params) ==
    [kind |-> kind, pc |-> pc, outbox |-> <<>>, sent |-> <<>>, params |-> params,
     n |-> 0, feats |-> <<>>, i |-> 0, progress |-> 0, dwl |-> <<>>,
     exports |-> <<>>, calls |-> <<>>, result |-> "running", answer |-> "none"]

Tids == DOMAIN threads
Alive(t) == threads[t].pc \notin {"returned", "gone"}
\* the thread is between two statements that call out
Ready(t) == threads[t].pc \notin {"done", "returned", "gone"} /\ threads[t].outbox = <<>>

Pending(q, t) == \E k \in DOMAIN q : q[k].src = t

\* nothing is kept of a thread that has returned and has no callback left
Reap(ths, q) ==
    [t \in DOMAIN ths |->
        IF ths[t].pc = "returned" /\ ~Pending(q, t)
        THEN NewThread(ths[t].kind, "gone", NoParams)
        ELSE ths[t]]

\* the next effect of worker t takes place; after the last effect of its last
\* step the target returns
Flush(t) ==
    /\ t \in Tids
    /\ threads[t].outbox # <<>>
    /\ Len(uiQueue) < MaxPending
    /\ LET e == Head(threads[t].outbox)
           q == IF e.direct THEN uiQueue ELSE CallInUi(uiQueue, e)
           last == threads[t].pc = "done" /\ Len(threads[t].outbox) = 1
       IN  /\ ui' = IF e.direct THEN ApplyItem(ui, e) ELSE ui
           /\ uiQueue' = q
           /\ threads' = Reap([threads EXCEPT
                                  ![t].outbox = Tail(@),
                                  ![t].sent = Append(@, e),
                                  ![t].pc = IF last THEN "returned" ELSE @], q)
    /\ UNCHANGED <<ee, installing, depsPresent, clicks>>
    /\ UNCHANGED valVars

---------------------------------------------------------------------------
(* The form: DEFAULT_ENTRY_VALUES and the texts a user may leave in it *)

DefaultForm ==
    [start_date |-> <<"2", "0", "2", "1", "-", "0", "9", "-", "0", "5">>,
     end_date |-> <<"2", "0", "2", "1", "-", "0", "9", "-", "2", "5">>,
     cloudy_percentage |-> <<"2", "0">>,
     max_water_percentage |-> <<"2", "0">>,
     tile |-> <<"T", "2", "9", "S", "Q", "V">>,
     start_ndvi |-> <<"0", ".", "0", "8">>,
     end_ndvi |-> <<"1">>,
     geometry |->
        <<"p", "r", "o", "j", "e", "c", "t", "s", "/", "b", "i", "o", "i",
          "n", "t", "e", "r", "t", "i", "d", "a", "l", "m", "a", "p", "p",
          "e", "r", "/", "a", "s", "s", "e", "t", "s", "/", "A", "O", "I",
          "_", "L", "o", "s", "L", "a", "n", "c", "e", "s", "_", "b", "e",
          "a", "c", "h", "_", "3", "2", "6", "2", "9">>,
     epsg |-> <<"3", "2", "6", "2", "9">>,
     folder_name |->
        <<"L", "o", "s", "L", "a", "n", "c", "e", "s", "B", "e", "a", "c",
          "h">>]

\* the form contents Execute is clicked with: the defaults, a cloud percentage
\* that is no integer, a lower-case tile with blanks, a tile one letter short
GuiForms ==
    {DefaultForm,
     [DefaultForm EXCEPT !.cloudy_percentage = <<"2", "o">>],
     [DefaultForm EXCEPT !.tile = <<" ", "t", "2", "9", " ", "s", "q", "v">>],
     [DefaultForm EXCEPT !.tile = <<"T", "2", "9", "S", "Q">>]}

\* acquisition dates ("YYYY-MM-dd") the remote service reports for scenes
SceneDates ==
    {<<"2", "0", "2", "1", "-", "0", "9", "-", "0", "5">>,
     <<"2", "0", "2", "1", "-", "0", "9", "-", "1", "0">>}

---------------------------------------------------------------------------
(* UI thread: dependency prompt, Log in, Execute, Clear console, the
   after(0) callbacks *)

\* _prompt_install_dependencies then, on "yes", _start_dependency_install,
\* run on the UI thread from widgets u and callback queue q
PromptInstallDependencies(u, q, yes) ==
    LET effs ==
            IF installing
            THEN <<Direct(MainThread, "dialog", <<"info", "Dependencies">>)>>
            ELSE IF yes
            THEN <<Direct(MainThread, "auth_status", "Status: Missing dependencies"),
                   Direct(MainThread, "login_text", LOGIN_BUTTON_TEXT_INSTALLING_DEPS),
                   Direct(MainThread, "auth_status", "Status: Installing dependencies..."),
                   SetLoginEnabled(MainThread, FALSE),
                   PrintOut(MainThread, "Installing dependencies")>>
            ELSE <<Direct(MainThread, "auth_status", "Status: Missing dependencies"),
                   Direct(MainThread, "auth_status", "Status: Dependencies required"),
                   Direct(MainThread, "dialog", <<"info", "Dependencies Required">>)>>
        r == RunEffects(u, q, effs)
        starts == ~installing /\ yes
    IN  /\ ui' = r.ui
        /\ uiQueue' = r.q
        /\ installing' = (installing \/ starts)
        /\ threads' = IF starts
                      THEN Append(threads, NewThread("install", "pip", NoParams))
                      ELSE threads

\* _check_dependencies_on_startup, nothing missing
StartupCheckOk ==
    /\ uiQueue # <<>> /\ Head(uiQueue).op = "startup"
    /\ depsPresent
    /\ uiQueue' = Tail(uiQueue)
    /\ UNCHANGED <<ui, threads, ee, installing, depsPresent, clicks>>
    /\ UNCHANGED valVars

\* _check_dependencies_on_startup, packages missing: the user is asked
StartupCheckMissing ==
    /\ uiQueue # <<>> /\ Head(uiQueue).op = "startup"
    /\ ~depsPresent
    /\ \E yes \in BOOLEAN : PromptInstallDependencies(ui, Tail(uiQueue), yes)
    /\ UNCHANGED <<ee, depsPresent, clicks>>
    /\ UNCHANGED valVars

\* authenticate(), _ensure_dependencies() returning True
Authenticate(max_clicks) ==
    /\ ui.login_button = "normal"
    /\ clicks < max_clicks
    /\ ~(~ee /\ ~depsPresent)
    /\ ee' = TRUE
    /\ LET r == RunEffects(ui, uiQueue,
                    <<Direct(MainThread, "auth_status", StatusAuthenticating),
                      Direct(MainThread, "login_text", LOGIN_BUTTON_TEXT_WORKING),
                      SetLoginEnabled(MainThread, FALSE)>>)
       IN  ui' = r.ui /\ uiQueue' = r.q
    /\ threads' = Append(threads, NewThread("auth", "start", NoParams))
    /\ clicks' = clicks + 1
    /\ UNCHANGED <<installing, depsPresent>>
    /\ UNCHANGED valVars

\* authenticate(), the import fails: _ensure_dependencies() prompts and
\* returns False
AuthenticateMissingDeps(max_clicks) ==
    /\ ui.login_button = "normal"
    /\ clicks < max_clicks
    /\ ~ee /\ ~depsPresent
    /\ \E yes \in BOOLEAN : PromptInstallDependencies(ui, uiQueue, yes)
    /\ clicks' = clicks + 1
    /\ UNCHANGED <<ee, depsPresent>>
    /\ UNCHANGED valVars

\* on_execute(), read being what self._read_params_from_ui() gave
OnExecuteEffects(read) ==
    <<SetRunEnabled(MainThread, FALSE), ClearOutputs(MainThread),
      SetProgress(MainThread, 0)>>
    \o (IF ~read.ok
        THEN <<ShowError(MainThread, "Invalid Input"),
               SetRunEnabled(MainThread, TRUE)>>
        ELSE IF ~ValidateParams(read.params).valid
        THEN <<ShowError(MainThread, "Invalid Parameters"),
               SetRunEnabled(MainThread, TRUE)>>
        ELSE <<>>)

\* on_execute() going on to start the worker whatever _validate_params said
OnExecuteStartsUnvalidated(read) == read.ok

\* whether on_execute() reaches threading.Thread(...).start()
OnExecuteStarts(read) == read.ok /\ ValidateParams(read.params).valid

OnExecuteWith(read, max_clicks) ==
    /\ ui.run_button = "normal"
    /\ clicks < max_clicks
    /\ LET r == RunEffects(ui, uiQueue, OnExecuteEffects(read))
       IN  ui' = r.ui /\ uiQueue' = r.q
    /\ threads' = IF OnExecuteStarts(read)
                  THEN Append(threads, NewThread("process", "start", read.params))
                  ELSE threads
    /\ clicks' = clicks + 1
    /\ UNCHANGED <<ee, installing, depsPresent>>
    /\ UNCHANGED valVars

\* on_execute() with the form holding f
OnExecute(f, max_clicks) == OnExecuteWith(ReadParamsFromUi(f), max_clicks)

\* the "Clear console" button: clear_outputs() called on the UI thread
ClearConsole(max_clicks) ==
    /\ clicks < max_clicks
    /\ LET r == RunEffects(ui, uiQueue, <<ClearOutputs(MainThread)>>)
       IN  ui' = r.ui /\ uiQueue' = r.q
    /\ clicks' = clicks + 1
    /\ UNCHANGED <<threads, ee, installing, depsPresent>>
    /\ UNCHANGED valVars

\* the oldest after(0) callback runs
UiApply ==
    /\ uiQueue # <<>>
    /\ Head(uiQueue).op \notin {"startup", "ask"}
    /\ ui' = ApplyItem(ui, Head(uiQueue))
    /\ uiQueue' = Tail(uiQueue)
    /\ threads' = Reap(threads, Tail(uiQueue))
    /\ UNCHANGED <<ee, installing, depsPresent, clicks>>
    /\ UNCHANGED valVars

\* _gui_input._ask: simpledialog.askstring returns the code or None (Cancel),
\* then done.set()
UiAsk ==
    /\ uiQueue # <<>>
    /\ Head(uiQueue).op = "ask"
    /\ \E answer \in {"code", "cancel"} :
          threads' = [threads EXCEPT ![Head(uiQueue).src].answer = answer]
    /\ uiQueue' = Tail(uiQueue)
    /\ UNCHANGED <<ui, ee, installing, depsPresent, clicks>>
    /\ UNCHANGED valVars

---------------------------------------------------------------------------
(* Dependency-install worker: _dependency_install_worker *)

\* the finally block of _dependency_install_worker, after the flag is reset
InstallFinally(t) ==
    <<Posted(t, "login_text", LOGIN_BUTTON_TEXT_DEFAULT),
      Posted(t, "auth_status", StatusNotLoggedIn),
      SetLoginEnabled(t, TRUE)>>

\* _pip_install returns
InstallPipOk(t) ==
    /\ t \in Tids /\ Ready(t)
    /\ threads[t].kind = "install" /\ threads[t].pc = "pip"
    /\ depsPresent' = TRUE
    /\ installing' = FALSE
    /\ threads' = [threads EXCEPT ![t].pc = "ensure",
                                  ![t].calls = Append(@, <<"pip", 0, "ok">>),
                                  ![t].outbox = InstallFinally(t)]
    /\ UNCHANGED <<ui, uiQueue, ee, clicks>>
    /\ UNCHANGED valVars

\* _pip_install raises: the error is shown, then the finally block runs
InstallPipFails(t) ==
    /\ t \in Tids /\ Ready(t)
    /\ threads[t].kind = "install" /\ threads[t].pc = "pip"
    /\ threads' = [threads EXCEPT ![t].pc = "finally",
                                  ![t].result = "failed",
                                  ![t].calls = Append(@, <<"pip", 0, "raise">>),
                                  ![t].outbox =
                                      <<ShowError(t, "Dependency Installation Failed")>>]
    /\ UNCHANGED <<ui, uiQueue, ee, installing, depsPresent, clicks>>
    /\ UNCHANGED valVars

InstallFailedFinally(t) ==
    /\ t \in Tids /\ Ready(t)
    /\ threads[t].kind = "install" /\ threads[t].pc = "finally"
    /\ installing' = FALSE
    /\ threads' = [threads EXCEPT ![t].pc = "done", ![t].outbox = InstallFinally(t)]
    /\ UNCHANGED <<ui, uiQueue, ee, depsPresent, clicks>>
    /\ UNCHANGED valVars

\* _ensure_dependencies(prompt=False) called off the UI thread: True when the
\* import succeeds (then self._ee is set), else the error is shown
EnsureDependenciesOk == ~(~ee /\ ~depsPresent)

InstallEnsure(t) ==
    /\ t \in Tids /\ Ready(t)
    /\ threads[t].kind = "install" /\ threads[t].pc = "ensure"
    /\ ee' = EnsureDependenciesOk
    /\ threads' = [threads EXCEPT
          ![t].pc = "done",
          ![t].result = IF EnsureDependenciesOk THEN "ok" ELSE "failed",
          ![t].outbox = IF EnsureDependenciesOk
                        THEN <<ShowInfo(t, "Dependencies Installed"),
                               Posted(t, "auth_status", "Status: Ready to log in")>>
                        ELSE <<ShowError(t, "Missing Dependencies")>>]
    /\ UNCHANGED <<ui, uiQueue, installing, depsPresent, clicks>>
    /\ UNCHANGED valVars

---------------------------------------------------------------------------
(* Authentication worker: _authenticate_worker and _gui_input *)

\* the except branch of _authenticate_worker
AuthFailed(t) ==
    <<ShowError(t, "Authentication Error"),
      Posted(t, "login_text", LOGIN_BUTTON_TEXT_DEFAULT),
      Posted(t, "auth_status", StatusNotLoggedIn),
      SetLoginEnabled(t, TRUE)>>

\* the statements after the try block of _authenticate_worker
AuthSucceeded(t) ==
    <<Posted(t, "login_text", LOGIN_BUTTON_TEXT_AUTHENTICATED),
      Posted(t, "auth_status", StatusLoggedIn),
      SetLoginEnabled(t, TRUE),
      ShowInfo(t, "Success"),
      Posted(t, "enable_fields", "")>>

\* ee.Authenticate(auth_mode="notebook", force=True) raises before it asks for
\* the code (or self._ee is None: error shown, login re-enabled)
AuthBeginFails(t) ==
    /\ t \in Tids /\ Ready(t)
    /\ threads[t].kind = "auth" /\ threads[t].pc = "start"
    /\ threads' = [threads EXCEPT
          ![t].pc = "done",
          ![t].result = "failed",
          ![t].calls = IF ee THEN Append(@, <<"Authenticate", 0, "raise">>) ELSE @,
          ![t].outbox = IF ee THEN AuthFailed(t)
                        ELSE <<ShowError(t, "Authentication Error"),
                               SetLoginEnabled(t, TRUE)>>]
    /\ UNCHANGED <<ui, uiQueue, ee, installing, depsPresent, clicks>>
    /\ UNCHANGED valVars

\* ee.Authenticate calls input(): _gui_input prints the prompt, posts _ask and
\* waits for done
AuthAsksCode(t) ==
    /\ t \in Tids /\ Ready(t)
    /\ threads[t].kind = "auth" /\ threads[t].pc = "start"
    /\ ee
    /\ threads' = [threads EXCEPT
          ![t].pc = "wait",
          ![t].answer = "pending",
          ![t].outbox = <<PrintOut(t, "prompt"), Posted(t, "ask", "")>>]
    /\ UNCHANGED <<ui, uiQueue, ee, installing, depsPresent, clicks>>
    /\ UNCHANGED valVars

\* done is set and the dialog was cancelled: _gui_input raises RuntimeError
AuthCancelled(t) ==
    /\ t \in Tids /\ Ready(t)
    /\ threads[t].kind = "auth" /\ threads[t].pc = "wait"
    /\ threads[t].answer = "cancel"
    /\ threads' = [threads EXCEPT
          ![t].pc = "done",
          ![t].result = "failed",
          ![t].calls = Append(@, <<"Authenticate", 0, "cancel">>),
          ![t].outbox = AuthFailed(t)]
    /\ UNCHANGED <<ui, uiQueue, ee, installing, depsPresent, clicks>>
    /\ UNCHANGED valVars

\* done is set and a code was entered: ee.Authenticate returns or raises
AuthCodeEntered(t, ok) ==
    /\ t \in Tids /\ Ready(t)
    /\ threads[t].kind = "auth" /\ threads[t].pc = "wait"
    /\ threads[t].answer = "code"
    /\ threads' = [threads EXCEPT
          ![t].pc = IF ok THEN "init" ELSE "done",
          ![t].result = IF ok THEN @ ELSE "failed",
          ![t].calls = Append(@, <<"Authenticate", 0, IF ok THEN "ok" ELSE "raise">>),
          ![t].outbox = IF ok THEN <<>> ELSE AuthFailed(t)]
    /\ UNCHANGED <<ui, uiQueue, ee, installing, depsPresent, clicks>>
    /\ UNCHANGED valVars

\* ee.Initialize() returns or raises
AuthInitialize(t, ok) ==
    /\ t \in Tids /\ Ready(t)
    /\ threads[t].kind = "auth" /\ threads[t].pc = "init"
    /\ threads' = [threads EXCEPT
          ![t].pc = "done",
          ![t].result = IF ok THEN "ok" ELSE "failed",
          ![t].calls = Append(@, <<"Initialize", 0, IF ok THEN "ok" ELSE "raise">>),
          ![t].outbox = IF ok THEN AuthSucceeded(t) ELSE AuthFailed(t)]
    /\ UNCHANGED <<ui, uiQueue, ee, installing, depsPresent, clicks>>
    /\ UNCHANGED valVars

---------------------------------------------------------------------------
(* Processing worker: _process_worker and _export_ndvi_and_rgb *)

\* the dates as collected, duplicates kept
DatesAsCollected(dates) == dates

\* list(dict.fromkeys(dates)): keys keep the order of first insertion
RECURSIVE DictFromKeys(_)
DictFromKeys(dates) ==
    IF dates = <<>> THEN <<>>
    ELSE LET before == DictFromKeys(SubSeq(dates, 1, Len(dates) - 1))
             last == dates[Len(dates)]
         IN  IF last \in Range(before) THEN before ELSE Append(before, last)

\* f"{product}_{image_date}_{tile}".replace("-", "")
ExportName(product, image_date, tile) ==
    RemoveChar(product \o <<"_">> \o image_date \o <<"_">> \o tile, "-")
NdviProduct == <<"n", "d", "v", "i">>
RgbProduct == <<"r", "g", "b">>

\* progress_increment = 60.0 / img_count (exact for the counts modelled)
ProgressIncrement(img_count) == 60 \div img_count

\* the except block of _process_worker with no finally block behind it
ProcessFailedNoFinally(t) ==
    <<ShowError(t, "Processing Error"), SetProgress(t, 0)>>

\* the except and finally blocks of _process_worker
ProcessFailed(t) ==
    <<ShowError(t, "Processing Error"), SetProgress(t, 0), SetRunEnabled(t, TRUE)>>

\* the head of one loop iteration, up to the call of _export_ndvi_and_rgb
SceneHeader(t, progress) ==
    <<SetProgress(t, progress), PrintOut(t, "Image selected")>>

\* the statements after the loop, and the finally block
ProcessFinished(t, dates_with_low_tides) ==
    <<Posted(t, "tide", DictFromKeys(dates_with_low_tides)),
      SetProgress(t, 100), SetRunEnabled(t, TRUE)>>

\* the exception reported and the loop carried on
RaiseAndResume(t, call, effs) ==
    [threads EXCEPT ![t].result = "failed",
                    ![t].calls = Append(@, <<call, threads[t].i, "raise">>),
                    ![t].outbox = effs]

\* a remote call of worker t raises: the except block, then the finally block
Raise(t, call, effs) ==
    [threads EXCEPT ![t].pc = "done",
                    ![t].result = "failed",
                    ![t].calls = Append(@, <<call, threads[t].i, "raise">>),
                    ![t].outbox = effs]

\* _ensure_dependencies(prompt=False), then self._set_progress(10)
ProcessBegin(t) ==
    /\ t \in Tids /\ Ready(t)
    /\ threads[t].kind = "process" /\ threads[t].pc = "start"
    /\ ee' = EnsureDependenciesOk
    /\ threads' = IF EnsureDependenciesOk
                  THEN [threads EXCEPT ![t].pc = "count",
                                       ![t].outbox = <<SetProgress(t, 10)>>]
                  ELSE [threads EXCEPT ![t].pc = "done",
                                       ![t].result = "unavailable",
                                       ![t].outbox = <<ShowError(t, "Missing Dependencies"),
                                                       SetRunEnabled(t, TRUE)>>]
    /\ UNCHANGED <<ui, uiQueue, installing, depsPresent, clicks>>
    /\ UNCHANGED valVars

\* imgs.size().getInfo() raises
ProcessCountRaises(t) ==
    /\ t \in Tids /\ Ready(t)
    /\ threads[t].kind = "process" /\ threads[t].pc = "count"
    /\ threads' = Raise(t, "size", ProcessFailed(t))
    /\ UNCHANGED <<ui, uiQueue, ee, installing, depsPresent, clicks>>
    /\ UNCHANGED valVars

\* the img_count == 0 branch leaving progress where it was
NoImagesFoundProgressKept(t) ==
    <<PrintOut(t, "No images were found"), Posted(t, "tide", <<>>),
      SetRunEnabled(t, TRUE)>>

\* the img_count == 0 branch up to its return, and the finally block
NoImagesFound(t) ==
    <<PrintOut(t, "No images were found"), SetProgress(t, 100),
      Posted(t, "tide", <<>>), SetRunEnabled(t, TRUE)>>

\* imgs.size().getInfo() returns 0
ProcessCountZero(t) ==
    /\ t \in Tids /\ Ready(t)
    /\ threads[t].kind = "process" /\ threads[t].pc = "count"
    /\ threads' = [threads EXCEPT
          ![t].pc = "done",
          ![t].result = "empty",
          ![t].calls = Append(@, <<"size", 0, "ok">>),
          ![t].outbox = NoImagesFound(t)]
    /\ UNCHANGED <<ui, uiQueue, ee, installing, depsPresent, clicks>>
    /\ UNCHANGED valVars

\* imgs.size().getInfo() returns img_count >= 1
ProcessCount(t, img_count) ==
    /\ t \in Tids /\ Ready(t)
    /\ threads[t].kind = "process" /\ threads[t].pc = "count"
    /\ threads' = [threads EXCEPT
          ![t].pc = "meta",
          ![t].n = img_count,
          ![t].calls = Append(@, <<"size", 0, "ok">>),
          ![t].outbox = <<SetProgress(t, 20), PrintOut(t, "Found images")>>]
    /\ UNCHANGED <<ui, uiQueue, ee, installing, depsPresent, clicks>>
    /\ UNCHANGED valVars

\* ee.FeatureCollection(metadata_list).getInfo() raises
ProcessMetadataRaises(t) ==
    /\ t \in Tids /\ Ready(t)
    /\ threads[t].kind = "process" /\ threads[t].pc = "meta"
    /\ threads' = Raise(t, "metadata", ProcessFailed(t))
    /\ UNCHANGED <<ui, uiQueue, ee, installing, depsPresent, clicks>>
    /\ UNCHANGED valVars

\* the metadata arrive, one feature per scene with its acquisition date; the
\* loop starts on scene 0
ProcessMetadata(t, feats) ==
    /\ t \in Tids /\ Ready(t)
    /\ threads[t].kind = "process" /\ threads[t].pc = "meta"
    /\ LET progress == 40 + ProgressIncrement(threads[t].n)
       IN  threads' = [threads EXCEPT
              ![t].pc = "ndvi",
              ![t].feats = feats,
              ![t].i = 0,
              ![t].progress = progress,
              ![t].dwl = <<feats[1]>>,
              ![t].calls = Append(@, <<"metadata", 0, "ok">>),
              ![t].outbox = <<SetProgress(t, 40)>> \o SceneHeader(t, progress)]
    /\ UNCHANGED <<ui, uiQueue, ee, installing, depsPresent, clicks>>
    /\ UNCHANGED valVars

ExportTask(t, kind, product) ==
    [kind |-> kind, scene |-> threads[t].i,
     name |-> ExportName(product, threads[t].feats[threads[t].i + 1],
                         threads[t].params.tile)]

\* task_ndvi.start() raises
ExportNdviRaises(t) ==
    /\ t \in Tids /\ Ready(t)
    /\ threads[t].kind = "process" /\ threads[t].pc = "ndvi"
    /\ threads' = Raise(t, "ndvi", ProcessFailed(t))
    /\ UNCHANGED <<ui, uiQueue, ee, installing, depsPresent, clicks>>
    /\ UNCHANGED valVars

\* the wait made after the NDVI export of every scene
IsFirstForEveryScene(i) == i >= 0

\* is_first=(i == 0)
IsFirst(i) == i = 0

\* task_ndvi.start() returns; if is_first, time.sleep(5)
ExportNdvi(t) ==
    /\ t \in Tids /\ Ready(t)
    /\ threads[t].kind = "process" /\ threads[t].pc = "ndvi"
    /\ LET is_first == IsFirst(threads[t].i)
       IN  threads' = [threads EXCEPT
              ![t].pc = "rgb",
              ![t].exports = Append(@, ExportTask(t, "ndvi", NdviProduct)),
              ![t].calls = Append(@, <<"ndvi", threads[t].i, "ok">>)
                           \o (IF is_first THEN <<<<"sleep", 0, "ok">>>> ELSE <<>>),
              ![t].outbox = <<PrintOut(t, "ndvi exported")>>
                            \o (IF is_first
                                THEN <<PrintOut(t, "Waiting for Google Drive folder creation...")>>
                                ELSE <<>>)]
    /\ UNCHANGED <<ui, uiQueue, ee, installing, depsPresent, clicks>>
    /\ UNCHANGED valVars

\* task_rgb.start() raises
ExportRgbRaises(t) ==
    /\ t \in Tids /\ Ready(t)
    /\ threads[t].kind = "process" /\ threads[t].pc = "rgb"
    /\ threads' = Raise(t, "rgb", ProcessFailed(t))
    /\ UNCHANGED <<ui, uiQueue, ee, installing, depsPresent, clicks>>
    /\ UNCHANGED valVars

\* a loop that stops one scene short
MoreScenesButLast(i, features) == i + 2 < Len(features)

\* for i, feature in enumerate(features): another iteration follows scene i
MoreScenes(i, features) == i + 1 < Len(features)

\* task_rgb.start() returns; then the next loop iteration starts, or the loop
\* ends and the run finishes
ExportRgb(t) ==
    /\ t \in Tids /\ Ready(t)
    /\ threads[t].kind = "process" /\ threads[t].pc = "rgb"
    /\ LET th == threads[t]
           more == MoreScenes(th.i, th.feats)
           progress == th.progress + ProgressIncrement(th.n)
           dwl == Append(th.dwl, th.feats[th.i + 2])
       IN  threads' = [threads EXCEPT
              ![t].pc = IF more THEN "ndvi" ELSE "done",
              ![t].result = IF more THEN @ ELSE "ok",
              ![t].exports = Append(@, ExportTask(t, "rgb", RgbProduct)),
              ![t].i = IF more THEN th.i + 1 ELSE th.i,
              ![t].progress = IF more THEN progress ELSE th.progress,
              ![t].dwl = IF more THEN dwl ELSE th.dwl,
              ![t].calls = Append(@, <<"rgb", th.i, "ok">>),
              ![t].outbox = <<PrintOut(t, "rgb exported")>>
                            \o (IF more THEN SceneHeader(t, progress)
                                ELSE ProcessFinished(t, th.dwl))]
    /\ UNCHANGED <<ui, uiQueue, ee, installing, depsPresent, clicks>>
    /\ UNCHANGED valVars

---------------------------------------------------------------------------
(* The application *)

NoForm == [DefaultForm EXCEPT !.tile = <<>>]

Init ==
    /\ ui = InitialUi
    /\ uiQueue = <<Posted(MainThread, "startup", "")>>
    /\ threads = <<>>
    /\ ee = FALSE
    /\ installing = FALSE
    /\ depsPresent \in BOOLEAN
    /\ clicks = 0
    /\ vform = NoForm
    /\ vphase = "off"
    /\ vparams = NoParams
    /\ vresult = Accept

Next ==
    \/ StartupCheckOk
    \/ StartupCheckMissing
    \/ Authenticate(MaxClicks)
    \/ AuthenticateMissingDeps(MaxClicks)
    \/ \E f \in GuiForms : OnExecute(f, MaxClicks)
    \/ ClearConsole(MaxClicks)
    \/ UiApply
    \/ UiAsk
    \/ \E t \in Tids : Flush(t)
    \/ \E t \in Tids : AuthBeginFails(t)
    \/ \E t \in Tids : AuthAsksCode(t)
    \/ \E t \in Tids : AuthCancelled(t)
    \/ \E t \in Tids, ok \in BOOLEAN : AuthCodeEntered(t, ok)
    \/ \E t \in Tids, ok \in BOOLEAN : AuthInitialize(t, ok)
    \/ \E t \in Tids : ProcessBegin(t)
    \/ \E t \in Tids : ProcessCountRaises(t)
    \/ \E t \in Tids : ProcessCountZero(t)
    \/ \E t \in Tids, img_count \in 1..MaxScenes : ProcessCount(t, img_count)
    \/ \E t \in Tids : ProcessMetadataRaises(t)
    \/ \E t \in Tids : \E feats \in [1..threads[t].n -> SceneDates] :
          ProcessMetadata(t, feats)
    \/ \E t \in Tids : ExportNdviRaises(t)
    \/ \E t \in Tids : ExportNdvi(t)
    \/ \E t \in Tids : ExportRgbRaises(t)
    \/ \E t \in Tids : ExportRgb(t)
    \/ \E t \in Tids : InstallPipOk(t)
    \/ \E t \in Tids : InstallPipFails(t)
    \/ \E t \in Tids : InstallFailedFinally(t)
    \/ \E t \in Tids : InstallEnsure(t)

Spec == Init /\ [][Next]_vars

\* The application started where the packages are installed: no dependency
\* prompt, no install worker.
InitReauth == Init /\ depsPresent

NextReauth ==
    \/ StartupCheckOk
    \/ Authenticate(ReauthClicks)
    \/ \E f \in GuiForms : OnExecute(f, ReauthClicks)
    \/ ClearConsole(ReauthClicks)
    \/ UiApply
    \/ UiAsk
    \/ \E t \in Tids : Flush(t)
    \/ \E t \in Tids : AuthBeginFails(t)
    \/ \E t \in Tids : AuthAsksCode(t)
    \/ \E t \in Tids : AuthCancelled(t)
    \/ \E t \in Tids, ok \in BOOLEAN : AuthCodeEntered(t, ok)
    \/ \E t \in Tids, ok \in BOOLEAN : AuthInitialize(t, ok)
    \/ \E t \in Tids : ProcessBegin(t)
    \/ \E t \in Tids : ProcessCountRaises(t)
    \/ \E t \in Tids : ProcessCountZero(t)
    \/ \E t \in Tids, img_count \in 1..ReauthScenes : ProcessCount(t, img_count)
    \/ \E t \in Tids : ProcessMetadataRaises(t)
    \/ \E t \in Tids : \E feats \in [1..threads[t].n -> SceneDates] :
          ProcessMetadata(t, feats)
    \/ \E t \in Tids : ExportNdviRaises(t)
    \/ \E t \in Tids : ExportNdvi(t)
    \/ \E t \in Tids : ExportRgbRaises(t)
    \/ \E t \in Tids : ExportRgb(t)

SpecReauth == InitReauth /\ [][NextReauth]_vars

\* The application started where the packages are installed, with what keeps
\* it going: the Tk main loop runs the callbacks waiting and the code dialog
\* is answered, a worker's call to root.after() goes through, and every call
\* a processing worker makes returns or raises.
NextLive ==
    \/ StartupCheckOk
    \/ Authenticate(LiveClicks)
    \/ \E f \in GuiForms : OnExecute(f, LiveClicks)
    \/ ClearConsole(LiveClicks)
    \/ UiApply
    \/ UiAsk
    \/ \E t \in Tids : Flush(t)
    \/ \E t \in Tids : AuthBeginFails(t)
    \/ \E t \in Tids : AuthAsksCode(t)
    \/ \E t \in Tids : AuthCancelled(t)
    \/ \E t \in Tids, ok \in BOOLEAN : AuthCodeEntered(t, ok)
    \/ \E t \in Tids, ok \in BOOLEAN : AuthInitialize(t, ok)
    \/ \E t \in Tids : ProcessBegin(t)
    \/ \E t \in Tids : ProcessCountRaises(t)
    \/ \E t \in Tids : ProcessCountZero(t)
    \/ \E t \in Tids, img_count \in 1..LiveScenes : ProcessCount(t, img_count)
    \/ \E t \in Tids : ProcessMetadataRaises(t)
    \/ \E t \in Tids : \E feats \in [1..threads[t].n -> SceneDates] :
          ProcessMetadata(t, feats)
    \/ \E t \in Tids : ExportNdviRaises(t)
    \/ \E t \in Tids : ExportNdvi(t)
    \/ \E t \in Tids : ExportRgbRaises(t)
    \/ \E t \in Tids : ExportRgb(t)

\* the next call of processing worker t returns or raises
ProcessStep(t) ==
    /\ t \in Tids
    /\ \/ ProcessBegin(t)
       \/ ProcessCountRaises(t)
       \/ ProcessCountZero(t)
       \/ \E img_count \in 1..LiveScenes : ProcessCount(t, img_count)
       \/ ProcessMetadataRaises(t)
       \/ \E feats \in [1..threads[t].n -> SceneDates] : ProcessMetadata(t, feats)
       \/ ExportNdviRaises(t)
       \/ ExportNdvi(t)
       \/ ExportRgbRaises(t)
       \/ ExportRgb(t)

\* what every step of the UI thread and of a worker moves on: the number of
\* callbacks waiting, and of each thread the statement it is at and the
\* number of its effects still to take place
progressOf ==
    <<Len(uiQueue),
      [t \in 1..LiveClicks |-> IF t \in Tids THEN threads[t].pc ELSE "none"],
      [t \in 1..LiveClicks |-> IF t \in Tids THEN Len(threads[t].outbox) ELSE 0]>>

Fairness ==
    /\ WF_progressOf(StartupCheckOk)
    /\ WF_progressOf(UiApply)
    /\ WF_progressOf(UiAsk)
    /\ \A t \in 1..LiveClicks : SF_progressOf(Flush(t))
    /\ \A t \in 1..LiveClicks : WF_progressOf(ProcessStep(t))

SpecLive == InitReauth /\ [][NextLive]_vars /\ Fairness

---------------------------------------------------------------------------
(* The form parser and the validator on their own *)

\* the texts each field of the form is drawn from
TileTexts ==
    {<<"T", "2", "9", "S", "Q", "V">>,
     <<" ", "t", "2", "9", " ", "s", "q", "v">>,
     <<"t", "2", "9", "s", "q", "v">>,
     <<"T", "2", "9", "S", "Q">>,
     <<"T", "2", "S", "Q", "V", "1">>,
     <<"T", "2", "9", "\t", "S", "Q", "V">>,
     <<"T", "2", "9", ";", "T", "3", "0">>,
     <<" ">>}
GeometryTexts ==
    {<<"a", "o", "i">>,
     <<" ">>}
FolderTexts ==
    {<<"o", "u", "t">>,
     <<>>}
StartDateTexts ==
    {<<"2", "0", "1", "7", "-", "0", "3", "-", "0", "1">>,
     <<"2", "0", "1", "7", "-", "0", "2", "-", "2", "8">>}
EndDateTexts ==
    {<<"2", "0", "1", "7", "-", "0", "3", "-", "0", "1">>,
     <<"2", "0", "1", "7", "-", "0", "2", "-", "2", "8">>,
     <<"2", "0", "2", "1", "-", "9", "-", "2", "5">>}
CloudTexts ==
    {<<"0">>,
     <<"-", "1">>,
     <<"1", "0", "1">>,
     <<"2", "o">>}
WaterTexts ==
    {<<"1", "0", "0">>,
     <<"-", "1">>,
     <<"1", "0", "1">>}
StartNdviTexts ==
    {<<"0", ".", "0", "8">>,
     <<"-", "1", ".", "5">>}
EndNdviTexts ==
    {<<"1">>,
     <<"1", ".", "5">>,
     <<"0", ".", "0", "8">>}
EpsgTexts ==
    {<<"3", "2", "6", "2", "9">>,
     <<"0">>}

VForms ==
    [start_date : StartDateTexts, end_date : EndDateTexts,
     cloudy_percentage : CloudTexts, max_water_percentage : WaterTexts,
     tile : TileTexts, start_ndvi : StartNdviTexts, end_ndvi : EndNdviTexts,
     geometry : GeometryTexts, epsg : EpsgTexts, folder_name : FolderTexts]

InitV ==
    /\ ui = InitialUi
    /\ uiQueue = <<Posted(MainThread, "startup", "")>>
    /\ threads = <<>>
    /\ ee = FALSE
    /\ installing = FALSE
    /\ depsPresent = TRUE
    /\ clicks = 0
    /\ vform \in VForms
    /\ vphase = "raw"
    /\ vparams = NoParams
    /\ vresult = Accept

VReadReturns(read) ==
    /\ read.ok
    /\ vphase' = "read"
    /\ vparams' = read.params
    /\ UNCHANGED <<vform, vresult>>
    /\ UNCHANGED guiVars

\* on_execute: params = self._read_params_from_ui() returns
VRead == vphase = "raw" /\ VReadReturns(ReadParamsFromUi(vform))

\* on_execute: self._read_params_from_ui() raises ValueError
VReadRaises ==
    /\ vphase = "raw"
    /\ ~ReadParamsFromUi(vform).ok
    /\ vphase' = "unparsed"
    /\ UNCHANGED <<vform, vparams, vresult>>
    /\ UNCHANGED guiVars

\* on_execute: valid, msg = _validate_params(params)
VValidate ==
    /\ vphase = "read"
    /\ vphase' = "validated"
    /\ vresult' = ValidateParams(vparams)
    /\ UNCHANGED <<vform, vparams>>
    /\ UNCHANGED guiVars

NextV == VRead \/ VReadRaises \/ VValidate

SpecV == InitV /\ [][NextV]_vars

---------------------------------------------------------------------------
(* Properties *)

IsPrefix(a, b) == Len(a) <= Len(b) /\ SubSeq(b, 1, Len(a)) = a
ProcessTids == {t \in Tids : threads[t].kind = "process"}
AuthTids == {t \in Tids : threads[t].kind = "auth"}
\* the effects of thread t that took place or are about to
Effects(t) == threads[t].sent \o threads[t].outbox
ErrorDialogs(effs) ==
    {k \in DOMAIN effs : effs[k].op = "dialog" /\ effs[k].box[1] = "error"}
\* this step applies the last callback that worker t posted
LastCallbackApplied(t) == threads[t].pc = "returned" /\ threads'[t].pc = "gone"

\* C1: a processing run that found N >= 1 scenes and in which no remote call
\* raised has started exactly 2N export jobs: for every scene exactly one NDVI
\* export and exactly one RGB export.
C1_TwoExportsPerScene ==
    \A t \in ProcessTids :
        threads[t].result = "ok" =>
            LET th == threads[t]
            IN  /\ th.n >= 1
                /\ Len(th.feats) = th.n
                /\ Len(th.exports) = 2 * th.n
                /\ \A scene \in 0..(th.n - 1) : \A kind \in {"ndvi", "rgb"} :
                      Cardinality({k \in DOMAIN th.exports :
                                      /\ th.exports[k].scene = scene
                                      /\ th.exports[k].kind = kind}) = 1
                /\ \A k \in DOMAIN th.calls : th.calls[k][3] = "ok"

\* a run over two scenes has finished without an exception
C1_Witness ==
    \E t \in ProcessTids :
        threads[t].result = "ok" /\ threads[t].n = 2 /\ Len(threads[t].exports) = 4

\* C2: in every reachable state at most one dependency-install worker, at most
\* one authentication worker and at most one processing worker is alive.
C2_OneWorkerOfEachKind ==
    \A a, b \in Tids :
        (a # b /\ Alive(a) /\ Alive(b)) => threads[a].kind # threads[b].kind

\* C3: when a remote call raises during a processing run the run is abandoned
\* there: the run makes no further remote call and starts no further export,
\* the failing call is made once only, and the exports started before the
\* failure stay as they are.
C3_AbandonedWhereItFailed ==
    [][\A t \in ProcessTids :
          LET th == threads[t]
              after == threads'[t]
          IN  /\ after.pc # "gone" => IsPrefix(th.exports, after.exports)
              /\ th.result = "failed" =>
                    /\ th.calls # <<>>
                    /\ th.calls[Len(th.calls)][3] = "raise"
                    /\ \A j, k \in DOMAIN th.calls :
                          (th.calls[j][1] = th.calls[k][1]
                           /\ th.calls[j][2] = th.calls[k][2]) => j = k
                    /\ after.pc # "gone" =>
                          /\ after.calls = th.calls
                          /\ after.exports = th.exports
                          /\ after.result = "failed"]_vars

\* the RGB export of the second scene raised after three exports were started
C3_Witness ==
    \E t \in ProcessTids :
        /\ threads[t].result = "failed"
        /\ Len(threads[t].exports) = 3
        /\ threads[t].calls[Len(threads[t].calls)] = <<"rgb", 1, "raise">>
        /\ threads[t].pc = "returned"


\* C4: when an exception is raised during a processing run an error dialog is
\* posted, and once every UI update the run posted has been applied the
\* progress value is 0 and the run control is enabled.
C4_FailedRunResetsProgress ==
    [][\A t \in ProcessTids :
          threads[t].result = "failed" =>
              /\ ErrorDialogs(Effects(t)) # {}
              /\ LastCallbackApplied(t) =>
                    /\ ui'.progress = 0
                    /\ ui'.run_button = "normal"]_vars

\* C5: Authenticated is entered only from Authenticating, by a worker whose
\* Authenticate and Initialize calls both returned; an attempt in which the
\* code prompt is cancelled or a call raises has reported the error and, once
\* its last update is applied, left the status at 'Not logged in' and the login
\* button at its default text and enabled.
C5_AuthStateMachine ==
    [][/\ (ui'.auth_status = StatusLoggedIn /\ ui.auth_status # StatusLoggedIn) =>
            /\ ui.auth_status = StatusAuthenticating
            /\ uiQueue # <<>>
            /\ Head(uiQueue).src \in AuthTids
            /\ LET calls == threads[Head(uiQueue).src].calls
               IN  /\ \E k \in DOMAIN calls : calls[k] = <<"Authenticate", 0, "ok">>
                   /\ \E k \in DOMAIN calls : calls[k] = <<"Initialize", 0, "ok">>
                   /\ \A k \in DOMAIN calls : calls[k][3] = "ok"
       /\ \A t \in AuthTids :
            threads[t].result = "failed" =>
                /\ ErrorDialogs(Effects(t)) # {}
                /\ LastCallbackApplied(t) =>
                      /\ ui'.auth_status = StatusNotLoggedIn
                      /\ ui'.login_text = LOGIN_BUTTON_TEXT_DEFAULT
                      /\ ui'.login_button = "normal"]_vars

\* the forms on_execute() turns down, and the parameters it lets through
RejectedForms ==
    {f \in GuiForms : ~(/\ ReadParamsFromUi(f).ok
                        /\ ValidateParams(ReadParamsFromUi(f).params).valid)}
AcceptedParams ==
    {ReadParamsFromUi(f).params : f \in GuiForms \ RejectedForms}

\* C6: an Execute click whose form does not parse, or whose parameters
\* _validate_params rejects, starts no processing worker, reports an error and
\* leaves the run control enabled; every processing worker was started with
\* parameters that parsed and passed validation.
C6_InvalidInputStartsNothing ==
    [][/\ \A f \in RejectedForms :
            (clicks' = clicks + 1 /\ OnExecute(f, MaxClicks)) =>
                /\ threads' = threads
                /\ ui'.run_button = "normal"
                /\ \E k \in DOMAIN uiQueue' :
                      /\ k > Len(uiQueue)
                      /\ uiQueue'[k].op = "dialog"
                      /\ uiQueue'[k].box[1] = "error"
       /\ \A t \in DOMAIN threads' :
            (threads'[t].kind = "process" /\ threads'[t].pc # "gone") =>
                threads'[t].params \in AcceptedParams]_vars

\* Execute was clicked with a tile one letter short: the error dialog is
\* waiting, the run control is enabled again and no worker was started
C6_Witness ==
    /\ ProcessTids = {}
    /\ clicks >= 2
    /\ ui.run_button = "normal"
    /\ \E k \in DOMAIN uiQueue :
          /\ uiQueue[k].op = "dialog"
          /\ uiQueue[k].box = <<"error", "Invalid Parameters">>
          /\ uiQueue[k].src = MainThread

\* the widgets after the widget calls effs ran in that order, from widgets u
RECURSIVE ApplyAll(_, _)
ApplyAll(u, effs) ==
    IF effs = <<>> THEN u ELSE ApplyAll(ApplyItem(u, Head(effs)), Tail(effs))

\* widgets as a run in progress may find them: a date list and console text
\* of an earlier run on display, the bar part of the way, Execute disabled
MidRunUi ==
    [InitialUi EXCEPT !.progress = 10,
                      !.run_button = "disabled",
                      !.console = {"Image selected"},
                      !.tide_dates = <<"2021-09-05">>]

FirstIndex(dates, d) ==
    CHOOSE k \in DOMAIN dates : dates[k] = d /\ \A j \in 1..(k - 1) : dates[j] # d

\* C8: the date list shown for a successful run over N >= 1 scenes holds the
\* scenes' acquisition dates, each exactly once, in the order of their first
\* occurrence among the scenes.
C8_DatesDedupedInFirstSeenOrder ==
    [][(/\ uiQueue # <<>>
        /\ Head(uiQueue).op = "tide"
        /\ uiQueue' = Tail(uiQueue)
        /\ Head(uiQueue).src \in ProcessTids
        /\ threads[Head(uiQueue).src].result = "ok") =>
            LET dates == threads[Head(uiQueue).src].feats
                shown == ui'.tide_dates
            IN  /\ Len(dates) >= 1
                /\ Range(shown) = Range(dates)
                /\ \A j, k \in DOMAIN shown : shown[j] = shown[k] => j = k
                /\ \A j, k \in DOMAIN shown :
                      j < k => FirstIndex(dates, shown[j]) < FirstIndex(dates, shown[k])]_vars

\* the list of a run over two scenes of one date is shown: one entry
C8_Witness ==
    \E t \in ProcessTids :
        /\ threads[t].result = "ok"
        /\ Len(threads[t].feats) = 2
        /\ threads[t].feats[1] = threads[t].feats[2]
        /\ threads[t].outbox = <<>>
        /\ ~\E k \in DOMAIN uiQueue : uiQueue[k].op = "tide"
        /\ ui.tide_dates = <<threads[t].feats[1]>>

\* the same widget call for the same thread
SameItem(a, b) ==
    a = b
\* callbacks a are the first callbacks of b
QueuePrefix(a, b) ==
    Len(a) <= Len(b) /\ \A k \in DOMAIN a : SameItem(a[k], b[k])

RuleViolated(k, p) ==
    LET start_dt == FromIsoFormat(p.start_date)
        end_dt == FromIsoFormat(p.end_date)
        dated == start_dt.ok /\ end_dt.ok
        InUnit(x) == x.num >= 0 - x.den /\ x.num <= x.den
    IN  CASE k = 1 -> Len(p.tile) = 0
          [] k = 2 -> \A j \in DOMAIN p.geometry_asset_id : IsSpace(p.geometry_asset_id[j])
          [] k = 3 -> \A j \in DOMAIN p.drive_folder : IsSpace(p.drive_folder[j])
          [] k = 4 -> \E j \in DOMAIN p.tile : p.tile[j] = ";"
          [] k = 5 -> ~(/\ Len(p.tile) = 6
                        /\ p.tile[1] = "T"
                        /\ \A j \in 2..3 : p.tile[j] \in Range(DigitChars)
                        /\ \A j \in 4..6 : p.tile[j] \in Range(UpperChars))
          [] k = 6 -> ~dated
          [] k = 7 -> dated /\ start_dt.ord < 20170301
          [] k = 8 -> dated /\ end_dt.ord < start_dt.ord
          [] k = 9 -> p.cloudy_percentage < 0 \/ p.cloudy_percentage > 100
          [] k = 10 -> p.max_water_percentage < 0 \/ p.max_water_percentage > 100
          [] k = 11 -> ~InUnit(p.start_ndvi) \/ ~InUnit(p.end_ndvi)
          [] k = 12 -> p.end_ndvi.num * p.start_ndvi.den
                          <= p.start_ndvi.num * p.end_ndvi.den
          [] k = 13 -> p.epsg < 1

RuleMessages ==
    <<MsgTileEmpty, MsgGeometryEmpty, MsgFolderEmpty, MsgOneTile, MsgTilePattern,
      MsgDateFormat, MsgStartEpoch, MsgEndBeforeStart, MsgCloud, MsgWater,
      MsgNdviRange, MsgNdviOrder, MsgEpsg>>

ViolatedRules(p) == {k \in DOMAIN RuleMessages : RuleViolated(k, p)}

\* C10: _validate_params returns (False, message of the first violated rule)
\* in the order tile empty, geometry empty, folder empty, ';' in tile, tile
\* pattern, date format, start-date epoch, end before start, cloud range,
\* water range, NDVI range, NDVI order, EPSG positive; it returns (True, '')
\* exactly when no rule is violated, and leaves its argument as it was.
C10_FirstViolatedRule ==
    vphase = "validated" =>
        LET violated == ViolatedRules(vparams)
            first == CHOOSE k \in violated : \A j \in violated : k <= j
        IN  /\ vparams = ReadParamsFromUi(vform).params
            /\ vresult.valid <=> violated = {}
            /\ violated = {} => vresult.msg = ""
            /\ violated # {} => vresult.msg = RuleMessages[first]

\* parameters that violate both the cloud and the water rule (and the EPSG
\* rule) were validated: the cloud message is the one returned
C10_Witness ==
    /\ vphase = "validated"
    /\ {9, 10, 13} \subseteq ViolatedRules(vparams)
    /\ vresult = [valid |-> FALSE, msg |-> MsgCloud]


\* the rules of _validate_params checked before rule k that p violates
EarlierViolated(k, p) == {j \in ViolatedRules(p) : j < k}
CloudOutOfRange(p) == p.cloudy_percentage < 0 \/ p.cloudy_percentage > 100
WaterOutOfRange(p) == p.max_water_percentage < 0 \/ p.max_water_percentage > 100

\* C11 as stated: whenever the cloud percentage is outside [0,100] validation
\* rejects with the cloud-percentage message, and whenever the water
\* percentage is outside [0,100] it rejects with the water-percentage message.
C11_OutOfRangeOwnMessage ==
    vphase = "validated" =>
        /\ CloudOutOfRange(vparams) => vresult = Reject(MsgCloud)
        /\ WaterOutOfRange(vparams) => vresult = Reject(MsgWater)

\* C11: a cloud or water percentage outside [0,100] is always rejected; the
\* message is the cloud-percentage message when the cloud value is out of
\* range and no earlier rule (tile, geometry, folder, dates) is violated, and
\* the water-percentage message when the water value is out of range, the
\* cloud value is in range and no earlier rule is violated.
C11_OutOfRangeRejected ==
    vphase = "validated" =>
        /\ CloudOutOfRange(vparams) =>
              /\ ~vresult.valid
              /\ EarlierViolated(9, vparams) = {} => vresult.msg = MsgCloud
              /\ vresult.msg = MsgCloud => EarlierViolated(9, vparams) = {}
        /\ WaterOutOfRange(vparams) =>
              /\ ~vresult.valid
              /\ EarlierViolated(10, vparams) = {} => vresult.msg = MsgWater
              /\ vresult.msg = MsgWater => EarlierViolated(10, vparams) = {}
        /\ vresult.msg = MsgCloud => CloudOutOfRange(vparams)
        /\ vresult.msg = MsgWater => WaterOutOfRange(vparams)

\* a water percentage of -1 with everything checked before it in order was
\* validated: rejected with the water-percentage message
C11_Witness ==
    /\ vphase = "validated"
    /\ vparams.max_water_percentage = -1
    /\ vparams.cloudy_percentage = 0
    /\ EarlierViolated(10, vparams) = {}
    /\ vresult = Reject(MsgWater)


\* x lies outside [-1, 1]
OutsideUnit(x) == x.num < 0 - x.den \/ x.num > x.den
\* a <= b for decimals with positive denominators
DecLe(a, b) == a.num * b.den <= b.num * a.den

DayNumber(s) ==
    DigitsValue(SubSeq(s, 1, 4)) * 10000 + DigitsValue(SubSeq(s, 6, 7)) * 100
        + DigitsValue(SubSeq(s, 9, 10))
WellFormedDates(p) == FromIsoFormat(p.start_date).ok /\ FromIsoFormat(p.end_date).ok

\* C13: parameters whose end date is earlier than the start date and
\* parameters whose start date is before 2017-03-01 are rejected; with a
\* start date of 2017-03-01 and an end date equal to it neither the
\* start-date message nor the end-date message is returned, and such
\* parameters are accepted when no other rule is violated.
C13_DateRules ==
    (vphase = "validated" /\ WellFormedDates(vparams)) =>
        LET start_dt == DayNumber(vparams.start_date)
            end_dt == DayNumber(vparams.end_date)
        IN  /\ end_dt < start_dt => ~vresult.valid
            /\ start_dt < 20170301 => ~vresult.valid
            /\ (start_dt = 20170301 /\ end_dt = start_dt) =>
                  /\ vresult.msg \notin {MsgStartEpoch, MsgEndBeforeStart}
                  /\ ViolatedRules(vparams) \subseteq {7, 8} => vresult.valid
            /\ vresult.msg = MsgStartEpoch => start_dt < 20170301
            /\ vresult.msg = MsgEndBeforeStart => end_dt < start_dt

\* start and end date both 2017-03-01, everything else in order: accepted
C13_Witness ==
    /\ vphase = "validated"
    /\ vparams.start_date = <<"2", "0", "1", "7", "-", "0", "3", "-", "0", "1">>
    /\ vparams.end_date = vparams.start_date
    /\ vresult = Accept


\* 'T', two digits, three letters A-Z and nothing else
TileShaped(tile) ==
    /\ Len(tile) = 6
    /\ tile[1] = "T"
    /\ \A j \in 2..3 : tile[j] \in Range(DigitChars)
    /\ \A j \in 4..6 : tile[j] \in Range(UpperChars)

Sleeps(calls) == {k \in DOMAIN calls : calls[k][1] = "sleep"}
\* the positions of the export calls other than the first scene's NDVI export
OtherExportCalls(calls) ==
    {k \in DOMAIN calls : calls[k][1] \in {"ndvi", "rgb"}
                          /\ ~(calls[k][1] = "ndvi" /\ calls[k][2] = 0)}
\* the delay comes right after the first scene's NDVI export job is started
\* and before every other export call
DelayPlaced(calls) ==
    \A k \in Sleeps(calls) :
        /\ k > 1
        /\ calls[k - 1] = <<"ndvi", 0, "ok">>
        /\ \A j \in OtherExportCalls(calls) : j > k

\* C15 as stated: every processing run with N >= 1 scenes makes the fixed
\* delay exactly once, after the first scene's NDVI export job is started and
\* before any other export job is started.
C15_DelayExactlyOnce ==
    \A t \in ProcessTids :
        (threads[t].n >= 1 /\ threads[t].result \in {"ok", "failed"}) =>
            /\ Cardinality(Sleeps(threads[t].calls)) = 1
            /\ DelayPlaced(threads[t].calls)

\* C15: a processing run makes the fixed delay at most once, and it makes it
\* exactly when the first scene's NDVI export job was started: right after
\* that job is started and before any other export job (the first scene's RGB
\* export included); never for a later scene, never in a run with zero scenes
\* or a run abandoned before its first export job was started; a run over
\* N >= 1 scenes in which no call raised made it exactly once.
C15_DelayAfterFirstExportOnly ==
    \A t \in ProcessTids :
        LET calls == threads[t].calls
            exports == threads[t].exports
        IN  /\ Cardinality(Sleeps(calls)) <= 1
            /\ DelayPlaced(calls)
            /\ Sleeps(calls) # {} <=>
                  \E k \in DOMAIN calls : calls[k] = <<"ndvi", 0, "ok">>
            /\ Sleeps(calls) # {} <=> exports # <<>>
            /\ exports # <<>> => exports[1].kind = "ndvi" /\ exports[1].scene = 0
            /\ threads[t].result = "empty" => Sleeps(calls) = {}
            /\ (threads[t].n >= 1 /\ threads[t].result = "ok") =>
                  Cardinality(Sleeps(calls)) = 1

\* a run over two scenes has started its second scene's NDVI export job, one
\* delay behind it
C15_Witness ==
    \E t \in ProcessTids :
        /\ threads[t].n = 2
        /\ Len(threads[t].exports) = 3
        /\ threads[t].result = "running"
        /\ Sleeps(threads[t].calls) = {4}


\* C16: in every reachable state, if the Execute button is enabled then the
\* authentication status is 'Logged in'.
C16_RunEnabledOnlyLoggedIn ==
    ui.run_button = "normal" => ui.auth_status = StatusLoggedIn


\* C17: within one processing run no two export jobs are started with the
\* same name: for any two distinct scenes of the run the NDVI export names
\* differ and the RGB export names differ.
C17_ExportNamesDistinct ==
    \A t \in ProcessTids :
        \A j, k \in DOMAIN threads[t].exports :
            threads[t].exports[j].name = threads[t].exports[k].name => j = k


\* the run-control updates among effects effs
RunStateUpdates(effs) == {k \in DOMAIN effs : effs[k].op = "run_state"}

\* C18: every Execute click ends with the run control enabled: a click turned
\* down by the parser or the validator has enabled it when the handler
\* returns; a processing worker the click started finishes (every call it
\* makes returning or raising, the UI thread running the posted callbacks),
\* the last callback run for it is a run-control update, and that update
\* enables the control.
C18_ExecuteEndsEnabled ==
    /\ [][/\ \A f \in RejectedForms :
                (clicks' = clicks + 1 /\ OnExecute(f, LiveClicks)) =>
                    ui'.run_button = "normal"
          /\ \A t \in ProcessTids :
                /\ threads[t].pc \in {"done", "returned"} =>
                      LET effs == Effects(t)
                      IN  /\ effs # <<>>
                          /\ effs[Len(effs)].op = "run_state"
                          /\ effs[Len(effs)].text = "normal"
                          /\ \A k \in RunStateUpdates(effs) : effs[k].text = "normal"
                /\ LastCallbackApplied(t) =>
                      /\ Head(uiQueue).src = t
                      /\ Head(uiQueue).op = "run_state"
                      /\ ui'.run_button = "normal"]_vars
    /\ \A t \in 1..LiveClicks :
          (t \in Tids /\ threads[t].kind = "process" /\ threads[t].pc # "gone")
              ~> (t \in Tids /\ threads[t].pc = "gone")

\* a processing run ended by an exception: its last callback has run, the
\* error dialog is up and the Execute button is enabled
C18_Witness ==
    /\ \E t \in ProcessTids : threads[t].pc = "gone"
    /\ ui.run_button = "normal"
    /\ clicks = LiveClicks
    /\ ui.dialog.title = "Processing Error"

=============================================================================
